---------------------------- MODULE Spec2Model ----------------------------
(***************************************************************************)
(* Model of src/src/organic_root_generator.py: the geometry node tree that *)
(* create_root_geometry_nodes() wires (main roots, secondary roots,        *)
(* tertiary roots, leaves, join, merge by distance), the properties that   *)
(* feed it, and the operators that create and update a root system.        *)
(*                                                                         *)
(* Spec is the evaluation of the tree for one set of property values, from *)
(* the state in which the add operator has finished.  OperatorSpec starts  *)
(* at registration and has the operators, the property callback and the    *)
(* evaluation as its steps.                                                *)
(*                                                                         *)
(* Reading of the node tree.  Every node is modelled by the function its   *)
(* type and operation name (MULTIPLY, GREATER_THAN, Switch, Instance on    *)
(* Points with a Selection, ...), every link by passing the value along.   *)
(* A field (Index, Spline Parameter, Random Value) is evaluated per        *)
(* element of the geometry it is applied to: the spline parameter of a     *)
(* sampled point is the factor k/(N-1) at which the point was sampled.     *)
(* A socket that takes one value for a whole geometry (the Scale of a      *)
(* Transform Geometry node) has one value, whatever field is linked to it. *)
(* One generation request evaluates the levels in data-flow order; a level *)
(* is evaluated when the joined output needs its geometry.                 *)
(*                                                                         *)
(* Units.  Lengths are integers in 1/10000 of a scene unit (LenUnit), so   *)
(* the weld distance 0.01 is 100.  Curve factors t are in 1/10000          *)
(* (TScale).  Angle inputs are in tenths of a degree; an angle in radians   *)
(* is held as a whole multiple of pi/18000, so a full turn is 36000.       *)
(* Growth multipliers and random draws in [0,1) are in thousandths.        *)
(*                                                                         *)
(* Geometry.  A tube is the list of its rings; a ring is the list of its   *)
(* vertices in the frame of its own curve (z along the curve).  Noise      *)
(* displacement is not modelled (Roughness 0 is a valid input and is the   *)
(* one the model uses).  Vertices are grouped in islands: lists of         *)
(* vertices that the weld processes together.                              *)
(***************************************************************************)
EXTENDS Integers, Sequences, FiniteSets, TLC

VARIABLES
    supplied,     \* the values last assigned to the add-on's properties
    props,        \* scene.fibonacci_roots_props: the values the properties hold
    scene,        \* the root objects, the active object's modifier, the node group
    result,       \* what the last operator returned
    inputs,       \* the modifier's socket values of this request (lines 393-420)
    seed,         \* selects the table the Random Value nodes draw from
    pc,           \* the level the request is at
    mainCurves,   \* realize_instances / set_radius: one record per main root
    secPoints,    \* curve_to_points: the candidate points on the main roots
    secCurves,    \* realize_sec / set_radius_sec: the instanced secondary curves
    terPoints,    \* curve_to_points_ter: the points on the secondary curves
    terCurves,    \* realize_ter / set_radius_ter: the instanced tertiary curves
    leaves,       \* instance_leaves: the leaf instances
    out           \* group_output: the geometry returned, empty until Merge

vars == <<supplied, props, scene, result, inputs, seed, pc, mainCurves, secPoints, secCurves, terPoints,
          terCurves, leaves, out>>

----------------------------------------------------------------------------
(* Bounds of the model *)

MaxRoots == 6
MaxSecDensity == 6
MaxTerDensity == 2
MaxSeed == 2
MaxObjects == 2

----------------------------------------------------------------------------
(* Units and program constants *)

LenUnit == 10 * 1000        \* one scene unit
TScale == 10 * 1000         \* curve factor 1.0
GrowthUnit == 10 * 100      \* growth multiplier 1.0
FullTurn == 360 * 100       \* 2 pi radians, in multiples of pi/18000

ResampleCount == 50         \* resample.inputs['Count']
WeldDistance == 100         \* merge_by_dist.inputs['Distance'] = 0.01
ZoneLow == 2000             \* greater_than.inputs[1] = 0.2
ZoneHigh == 8000            \* less_than.inputs[1] = 0.8
BranchChance == 400         \* compare_random.inputs[1] = 0.4
GrowthCycle == 5            \* modulo.inputs[1] = 5.0
MinSeparation == 500        \* clamp_separation Min = 0.05
MaxSeparation == 20000      \* clamp_separation Max = 2.0
MinRadius == 1000           \* min_radius.inputs[1] = 0.1
Gravity == 3000             \* add_gravity.inputs[1] = (0, 0, -0.3)
LeafInstanceScale == 3000   \* instance_leaves.inputs['Scale'] = (0.3, 0.3, 0.3)
PlaneSize == 1000           \* primitive_plane_add(size=0.1)

----------------------------------------------------------------------------
(* Arithmetic helpers *)

\* F(x), with x evaluated once before F is
Strict(F(_), x) == CHOOSE r \in {F(y) : y \in {x}} : TRUE

Abs(x) == IF x < 0 THEN -x ELSE x

Min(a, b) == IF a <= b THEN a ELSE b

Max(a, b) == IF a >= b THEN a ELSE b

RECURSIVE SqrtSearch(_, _, _)
SqrtSearch(n, lo, hi) ==
    IF lo >= hi THEN lo
    ELSE Strict(LAMBDA mid : IF mid * mid <= n THEN SqrtSearch(n, mid, hi)
                             ELSE SqrtSearch(n, lo, mid - 1),
                (lo + hi + 1) \div 2)

\* floor of the square root of n, 0 <= n < 2^31
ISqrt(n) == Strict(LAMBDA m : SqrtSearch(m, 0, 46340), n)

\* ShaderNodeVectorMath ADD and SCALE (the factor k in 1/10000)
VecAdd(u, v) ==
    Strict(LAMBDA p : <<p[1][1] + p[2][1], p[1][2] + p[2][2], p[1][3] + p[2][3]>>,
           <<u, v>>)

VecScale(v, k) ==
    Strict(LAMBDA p : <<(p[1][1] * p[2]) \div TScale, (p[1][2] * p[2]) \div TScale,
                        (p[1][3] * p[2]) \div TScale>>,
           <<v, k>>)

\* largest absolute component of v
MaxAbs(v) == Max(Abs(v[1]), Max(Abs(v[2]), Abs(v[3])))

\* length of the vector v (components in LenUnit or TScale), floored; large
\* vectors are measured in hundredths so that the squares stay below 2^31
Norm(v) ==
    Strict(LAMBDA u :
               IF MaxAbs(u) <= 26000
               THEN ISqrt(u[1] * u[1] + u[2] * u[2] + u[3] * u[3])
               ELSE 100 * ISqrt((u[1] \div 100) * (u[1] \div 100)
                                + (u[2] \div 100) * (u[2] \div 100)
                                + (u[3] \div 100) * (u[3] \div 100)),
           v)

\* v divided by its length n (the unit vector has length TScale)
Unit(v, n) ==
    IF n = 0 THEN <<0, 0, 0>>
    ELSE <<(v[1] * TScale) \div n, (v[2] * TScale) \div n, (v[3] * TScale) \div n>>

\* ShaderNodeVectorMath NORMALIZE: the unit vector, and the zero vector for
\* the zero vector; a large vector is first brought down to hundredths
Normalize(v) ==
    Strict(LAMBDA u :
               Strict(LAMBDA w : Strict(LAMBDA n : Unit(w, n), Norm(w)),
                      IF MaxAbs(u) <= 20000 THEN u
                      ELSE <<u[1] \div 100, u[2] \div 100, u[3] \div 100>>),
           v)

\* GeometryNodeSplineParameter Factor of point k (from 0) of an n-point curve,
\* and of the k-th of n points sampled in COUNT mode
SplineFactor(k, n) == IF n <= 1 THEN 0 ELSE (k * TScale) \div (n - 1)

----------------------------------------------------------------------------
(* Main roots: growth direction (lines 431-531) *)

negate_length(L) == L * (-1)

combine_down(L) == <<0, 0, negate_length(L)>>

combine_up(L) == <<0, 0, L>>

combine_radial(L) == <<L, 0, 0>>

diagonal_x(L) == (L * 7) \div 10

diagonal_z(L) == (L * (-7)) \div 10

combine_diagonal(L) == <<diagonal_x(L), 0, diagonal_z(L)>>

compare_down(dir) == dir = 0

compare_up(dir) == dir = 1

\* variant: the Radial comparison never matches
compare_radial_never(dir) == FALSE

compare_radial(dir) == dir = 2

compare_diagonal(dir) == dir = 3

switch_down_up(dir, L) ==
    IF compare_down(dir) THEN combine_down(L) ELSE combine_up(L)

switch_radial(dir, L) ==
    IF compare_radial(dir) THEN combine_radial(L) ELSE switch_down_up(dir, L)

switch_diagonal(dir, L) ==
    IF compare_diagonal(dir) THEN combine_diagonal(L) ELSE switch_radial(dir, L)

----------------------------------------------------------------------------
(* Main roots: Fibonacci distribution points (lines 544-623) *)

\* variant: a grid that is one point short
mesh_grid_short(count) == 0 .. (count - 2)

\* mesh_grid with Vertices X = Count, Vertices Y = 1: the point indices
mesh_grid(count) == 0 .. (count - 1)

\* RADIANS of an angle given in tenths of a degree
to_radians_fib(fibAngle) == fibAngle * (FullTurn \div 3600)

\* variant: the index multiplies the angle in degrees
mult_angle_degrees(i, fibAngle) == i * fibAngle

mult_angle(i, fibAngle) == i * to_radians_fib(fibAngle)

\* (cos_fib, sin_fib): the unit vector of an angle, held as the angle within
\* one full turn (cosine and sine have period FullTurn)
cos_sin_fib(angle) == angle % FullTurn

\* variant: the separation is used as given
clamp_separation_none(sep) == sep

clamp_separation(sep) == Max(MinSeparation, Min(sep, MaxSeparation))

\* variant: the radius does not follow the separation
min_radius_fixed(sep) == MinSeparation + MinRadius

min_radius(sep) == clamp_separation(sep) + MinRadius

\* combine_fib_pos = (cos * radius, sin * radius, 0), held in polar form
combine_fib_pos(i, fibAngle, sep) ==
    [radius |-> min_radius(sep), angle |-> cos_sin_fib(mult_angle(i, fibAngle))]

----------------------------------------------------------------------------
(* Main roots: individual growth (lines 625-637, 726-877) *)

modulo(i) == i % GrowthCycle

\* ShaderNodeMath COMPARE with epsilon 0.001 on whole numbers
compare_n(m, n) == m = n

\* switch_g1 .. switch_g5
switch_g(indiv, g) == IF indiv THEN g ELSE GrowthUnit

\* switch_growth_0 .. switch_growth_4
switch_growth(n, i, indiv, growth) ==
    IF compare_n(modulo(i), n) THEN switch_g(indiv, growth[n + 1]) ELSE 0

\* add_growth_01, add_growth_23, add_growth_combined, final_growth_factor
final_growth_factor(i, indiv, growth) ==
    ((switch_growth(0, i, indiv, growth) + switch_growth(1, i, indiv, growth))
     + (switch_growth(2, i, indiv, growth) + switch_growth(3, i, indiv, growth)))
    + switch_growth(4, i, indiv, growth)

growth_switch(i, indiv, growth) ==
    IF indiv THEN final_growth_factor(i, indiv, growth) ELSE GrowthUnit

combine_scale(i, indiv, growth) ==
    <<GrowthUnit, GrowthUnit, growth_switch(i, indiv, growth)>>

\* What the Scale socket of scale_curve holds.  GeometryNodeTransform takes
\* one vector for the whole geometry, and combine_scale is a field of the
\* point index once Individual Growth is on; the node then reads the field
\* at index 0, reads it as the zero vector, or leaves the link unused and
\* keeps the socket's own (1, 1, 1).
TransformScaleReads == {"first", "zero", "unlinked"}

\* the reads that can differ for the request: all agree while combine_scale
\* is the constant (1, 1, 1)
ScaleReadsOf(in) == IF in.individualGrowth THEN TransformScaleReads ELSE {"first"}

scale_input(in, read) ==
    IF in.individualGrowth /\ read = "zero" THEN <<0, 0, 0>>
    ELSE IF in.individualGrowth /\ read = "unlinked"
         THEN <<GrowthUnit, GrowthUnit, GrowthUnit>>
    ELSE combine_scale(0, in.individualGrowth, in.growth)

\* GeometryNodeTransform with Scale: the end point of the resampled line
scale_curve(endv, scale) ==
    Strict(LAMBDA p : <<(p[1][1] * p[2][1]) \div GrowthUnit,
                        (p[1][2] * p[2][2]) \div GrowthUnit,
                        (p[1][3] * p[2][3]) \div GrowthUnit>>,
           <<endv, scale>>)

----------------------------------------------------------------------------
(* Main roots: rotation (lines 639-712) *)

to_radians_spread(spread) == spread * (FullTurn \div 3600)

mult_fib_rotation(i, fibAngle) == i * to_radians_fib(fibAngle)

is_radial(dir) == dir = 2

is_diagonal(dir) == dir = 3

\* variant: the spread is used in full
spread_variation_full(spread) == to_radians_spread(spread)

spread_variation(spread) == (to_radians_spread(spread) * 3) \div 10

combine_rotation_radial(i, fibAngle, spread) ==
    <<to_radians_spread(spread), mult_fib_rotation(i, fibAngle), 0>>

combine_rotation_normal(i, fibAngle, spread) ==
    <<spread_variation(spread), mult_fib_rotation(i, fibAngle), 0>>

combine_rotation_diagonal(i, fibAngle, spread) ==
    <<to_radians_spread(spread), mult_fib_rotation(i, fibAngle), 0>>

switch_rotation_1(dir, i, fibAngle, spread) ==
    IF is_radial(dir) THEN combine_rotation_radial(i, fibAngle, spread)
    ELSE combine_rotation_normal(i, fibAngle, spread)

switch_rotation_2(dir, i, fibAngle, spread) ==
    IF is_diagonal(dir) THEN combine_rotation_diagonal(i, fibAngle, spread)
    ELSE switch_rotation_1(dir, i, fibAngle, spread)

----------------------------------------------------------------------------
(* Tapering (lines 914-942 and 1077-1102) *)

\* variant: the factor is used without being inverted
invert_taper_none(t) == t

invert_taper(t) == TScale - t

\* POWER with exponent 1.5: x * sqrt(x)
power_taper(x) == Strict(LAMBDA y : (y * ISqrt(y * TScale)) \div TScale, x)

mult_width(width, t) == (width * power_taper(invert_taper(t))) \div TScale

invert_sec(t) == TScale - t

\* POWER with exponent 2.0
power_sec(x) == Strict(LAMBDA y : (y * y) \div TScale, x)

mult_width_sec(width, t) == (width * power_sec(invert_sec(t))) \div TScale

----------------------------------------------------------------------------
(* Curve to mesh (lines 944-952, 1104-1111, 1159-1166).  A profile circle   *)
(* of resolution n has its vertex j at angle j * 360 / n; the tables hold   *)
(* <<cosine, sine>> in 1/10000.                                             *)

circle ==
    << <<10000, 0>>, <<7071, 7071>>, <<0, 10000>>, <<-7071, 7071>>,
       <<-10000, 0>>, <<-7071, -7071>>, <<0, -10000>>, <<7071, -7071>> >>

circle_sec ==
    << <<10000, 0>>, <<5000, 8660>>, <<-5000, 8660>>,
       <<-10000, 0>>, <<-5000, -8660>>, <<5000, -8660>> >>

circle_ter == << <<10000, 0>>, <<-5000, 8660>>, <<-5000, -8660>> >>

\* the profile circle scaled by the curve radius r, at distance z along the curve
Ring(profile, r, z) ==
    [j \in 1 .. Len(profile) |->
        <<(profile[j][1] * r) \div TScale, (profile[j][2] * r) \div TScale, z>>]

\* distance along the curve of its control point k (1-based) of n
Station(len, k, n) == IF n <= 1 THEN 0 ELSE ((k - 1) * len) \div (n - 1)

\* the junction an island of rings first .. last of curve c lies at, 0 for
\* none.  A secondary curve ends in a ring of radius 0, a single point, and
\* the tertiary curve that starts at its end (parameter 1) has its first ring
\* around that point: the vertices of the two are within the weld distance
\* of each other when the tertiary radius is.  The junction is named by the
\* secondary curve.
Junction(level, id, c, first, last) ==
    IF level = "secondary" /\ last = Len(c.radius) THEN id
    ELSE IF level = "tertiary" /\ first = 1 /\ c.t = TScale
                /\ c.radius[1] <= WeldDistance
         THEN c.parent
    ELSE 0

\* GeometryNodeCurveToMesh of one curve c = [len, radius]: the rings of the
\* tube as islands.  Vertices of different rings can only be within the weld
\* distance of each other when the rings are, so the rings are separate
\* islands when their spacing exceeds it and one island otherwise.
CurveToMesh(level, id, c, profile) ==
    IF Len(c.radius) > 1 /\ c.len \div (Len(c.radius) - 1) > WeldDistance
    THEN [k \in 1 .. Len(c.radius) |->
            [level |-> level, curve |-> id, at |-> Junction(level, id, c, k, k),
             verts |-> Ring(profile, c.radius[k],
                            Station(c.len, k, Len(c.radius)))]]
    ELSE << [level |-> level, curve |-> id,
             at |-> Junction(level, id, c, 1, Len(c.radius)),
             verts |-> [v \in 1 .. Len(c.radius) * Len(profile) |->
                          Ring(profile, c.radius[((v - 1) \div Len(profile)) + 1],
                               Station(c.len, ((v - 1) \div Len(profile)) + 1,
                                       Len(c.radius)))[((v - 1) % Len(profile)) + 1]]] >>

RECURSIVE Tubes(_, _, _, _, _)
\* the tubes of the curves lo .. hi, one after the other
Tubes(level, curves, profile, lo, hi) ==
    IF lo > hi THEN <<>>
    ELSE IF lo = hi
         THEN Strict(LAMBDA i : CurveToMesh(level, i, curves[i], profile), lo)
    ELSE Strict(LAMBDA mid : Tubes(level, curves, profile, lo, mid)
                                \o Tubes(level, curves, profile, mid + 1, hi),
                (lo + hi) \div 2)

\* to_mesh, to_mesh_sec, to_mesh_ter: the tubes of all curves of a level
to_mesh(curves) == Tubes("main", curves, circle, 1, Len(curves))

to_mesh_sec(curves) == Tubes("secondary", curves, circle_sec, 1, Len(curves))

to_mesh_ter(curves) == Tubes("tertiary", curves, circle_ter, 1, Len(curves))

\* the object the modifier sits on: a plane of size 0.1 (lines 1268-1270)
input_geometry ==
    LET h == PlaneSize \div 2
    IN  << [level |-> "input", curve |-> 0, at |-> 0,
            verts |-> << <<-h, -h, 0>>, <<h, -h, 0>>, <<-h, h, 0>>, <<h, h, 0>> >>] >>

\* MeshGrid with 0 x 0 vertices: no geometry
empty_geometry == <<>>

----------------------------------------------------------------------------
(* Merge by distance (lines 1245-1251).  Vertices are visited in index     *)
(* order; a vertex that is not yet merged takes every not yet merged       *)
(* vertex within the distance, and the group is replaced by one vertex at  *)
(* the average of its positions.                                           *)

\* Euclidean distance of u and v is at most WeldDistance
Close(u, v) ==
    /\ Abs(u[1] - v[1]) <= WeldDistance
    /\ Abs(u[2] - v[2]) <= WeldDistance
    /\ Abs(u[3] - v[3]) <= WeldDistance
    /\ (u[1] - v[1]) * (u[1] - v[1]) + (u[2] - v[2]) * (u[2] - v[2])
         + (u[3] - v[3]) * (u[3] - v[3]) <= WeldDistance * WeldDistance

RECURSIVE SumOver(_, _, _, _, _)
\* sum of component c of the vertices verts[j], j in S and lo <= j <= hi
SumOver(verts, S, c, lo, hi) ==
    IF lo = hi THEN (IF lo \in S THEN verts[lo][c] ELSE 0)
    ELSE Strict(LAMBDA mid : SumOver(verts, S, c, lo, mid)
                                + SumOver(verts, S, c, mid + 1, hi),
                (lo + hi) \div 2)

\* the average position of the vertices verts[j], j in S; i is the least
\* element of S
Centroid(verts, S, i) ==
    Strict(LAMBDA hi :
               <<SumOver(verts, S, 1, i, hi) \div Cardinality(S),
                 SumOver(verts, S, 2, i, hi) \div Cardinality(S),
                 SumOver(verts, S, 3, i, hi) \div Cardinality(S)>>,
           CHOOSE m \in S : \A x \in S : x <= m)

\* vertex i, if not yet merged, becomes the target of a new group
WeldSeed(verts, i, st) ==
    IF i \in st.claimed THEN st
    ELSE Strict(LAMBDA group :
                    [claimed |-> st.claimed \cup group,
                     res |-> Append(st.res, Centroid(verts, group, i))],
                {j \in i .. Len(verts) :
                    j \notin st.claimed /\ Close(verts[i], verts[j])})

RECURSIVE WeldRange(_, _, _, _)
\* the vertices lo .. hi visited in index order
WeldRange(verts, lo, hi, st) ==
    IF lo = hi THEN Strict(LAMBDA i : WeldSeed(verts, i, st), lo)
    ELSE Strict(LAMBDA mid :
                    Strict(LAMBDA st1 : WeldRange(verts, mid + 1, hi, st1),
                           WeldRange(verts, lo, mid, st)),
                (lo + hi) \div 2)

Weld(verts) ==
    IF verts = <<>> THEN <<>>
    ELSE Strict(LAMBDA v : WeldRange(v, 1, Len(v),
                                     [claimed |-> {}, res |-> <<>>]).res,
                verts)

\* the vertices of island m as the weld sees them: in the frame of its
\* curve, and at a junction in the frame of the secondary curve, the
\* tertiary ring moved to the end point of that curve
Placed(mesh, m, S) ==
    IF mesh[m].level = "secondary" \/ \A k \in S : mesh[k].level # "secondary"
    THEN mesh[m].verts
    ELSE Strict(LAMBDA tip : [v \in 1 .. Len(mesh[m].verts) |->
                                 VecAdd(mesh[m].verts[v], tip)],
                LET sec == mesh[CHOOSE k \in S : mesh[k].level = "secondary"].verts
                IN  sec[Len(sec)])

\* the vertices that are welded together with those of island m, in index
\* order: the island's own, and at a junction those of the (at most two)
\* islands that meet there, listed with the first of them
Cluster(mesh, m) ==
    IF mesh[m].at = 0 THEN mesh[m].verts
    ELSE LET S == {k \in 1 .. Len(mesh) : mesh[k].at = mesh[m].at}
             lo == CHOOSE k \in S : \A x \in S : k <= x
             hi == CHOOSE k \in S : \A x \in S : x <= k
         IN  IF m # lo THEN <<>>
             ELSE IF lo = hi THEN mesh[m].verts
             ELSE Placed(mesh, lo, S) \o Placed(mesh, hi, S)

\* GeometryNodeMergeByDistance on a mesh given by its islands; islands with
\* the same vertices are welded once
merge_by_dist(mesh) ==
    Strict(LAMBDA clusters :
        Strict(LAMBDA welded :
                   [m \in 1 .. Len(mesh) |->
                       [level |-> mesh[m].level, curve |-> mesh[m].curve,
                        at |-> mesh[m].at,
                        verts |-> (CHOOSE w \in welded : w[1] = clusters[m])[2]]],
               {<<v, Weld(v)>> : v \in {clusters[m] : m \in 1 .. Len(mesh)}}),
        [m \in 1 .. Len(mesh) |-> Cluster(mesh, m)])

----------------------------------------------------------------------------
(* Secondary roots (lines 954-1111) *)

\* variant: one point fewer on every curve
curve_to_points_fewer(curves, n) ==
    [p \in 1 .. Len(curves) * (n - 1) |->
        [parent |-> ((p - 1) \div (n - 1)) + 1,
         id |-> p - 1,
         t |-> SplineFactor((p - 1) % (n - 1), n - 1)]]

\* curve_to_points in COUNT mode: n points on every curve, numbered curve by
\* curve; the point keeps the factor at which it was sampled
curve_to_points(curves, n) ==
    [p \in 1 .. Len(curves) * n |->
        [parent |-> ((p - 1) \div n) + 1,
         id |-> p - 1,
         t |-> SplineFactor((p - 1) % n, n)]]

\* the values a Random Value node (FLOAT, 0 .. 1) is seen to return
DrawValues == <<0, 399, 400, 999>>

\* FunctionNodeRandomValue: a fixed function of the element's ID; which
\* function is not known to the program, the seed picks one
random_value(s, id) == DrawValues[((id * (2 * s + 1) + s) % Len(DrawValues)) + 1]

compare_random(s, id) == random_value(s, id) < BranchChance

\* variant: the lower end of the zone is included
greater_than_or_equal(t) == t >= ZoneLow

greater_than(t) == t > ZoneLow

less_than(t) == t < ZoneHigh

and_node(t) == greater_than(t) /\ less_than(t)

and_node2(s, id, t) == and_node(t) /\ compare_random(s, id)

\* GeometryNodeInputTangent on a straight curve: its direction
curve_tangent(c) == Normalize(c.endv)

\* GeometryNodeInputNormal on a straight curve in the XZ plane: the
\* perpendicular of the tangent in that plane
normal_sec(c) ==
    Strict(LAMBDA T : Normalize(<<T[3], 0, -T[1]>>), curve_tangent(c))

mix_vectors(c) == VecAdd(curve_tangent(c), normal_sec(c))

normalize_branch(c) == Normalize(mix_vectors(c))

scale_branch_dir(c, secLength) == VecScale(normalize_branch(c), secLength)

add_gravity(c, secLength) ==
    VecAdd(scale_branch_dir(c, secLength), <<0, 0, -Gravity>>)

\* variant: the branch is lowered by the branch angle
sec_curve_angled(pt, c, in) ==
    Strict(LAMBDA endv :
               [parent |-> pt.parent, id |-> pt.id, t |-> pt.t,
                endv |-> endv, len |-> Norm(endv),
                radius |-> [k \in 1 .. 2 |->
                               mult_width_sec(in.secWidth, SplineFactor(k - 1, 2))]],
           VecAdd(add_gravity(c, in.secLength), <<0, 0, -in.secAngle>>))

\* sec_curve: the line from the origin to add_gravity, with the radius that
\* set_radius_sec gives to its two control points
sec_curve(pt, c, in) ==
    Strict(LAMBDA endv :
               [parent |-> pt.parent, id |-> pt.id, t |-> pt.t,
                endv |-> endv, len |-> Norm(endv),
                radius |-> [k \in 1 .. 2 |->
                               mult_width_sec(in.secWidth, SplineFactor(k - 1, 2))]],
           add_gravity(c, in.secLength))

\* variant: the draw of a point is shifted by the number of main roots
instance_sec_shifted(points, curves, in, s) ==
    Strict(LAMBDA sel :
               [q \in 1 .. Len(sel) |->
                   sec_curve(sel[q], curves[sel[q].parent], in)],
           SelectSeq(points, LAMBDA pt : and_node2(s, pt.id + Len(curves), pt.t)))

\* instance_sec / realize_sec: one secondary curve on every selected point
instance_sec(points, curves, in, s) ==
    Strict(LAMBDA sel :
               [q \in 1 .. Len(sel) |->
                   sec_curve(sel[q], curves[sel[q].parent], in)],
           SelectSeq(points, LAMBDA pt : and_node2(s, pt.id, pt.t)))

----------------------------------------------------------------------------
(* Tertiary roots (lines 1113-1166) *)

\* the values the Random Value node (FLOAT_VECTOR, min (-1,-1,-1),
\* max (1,1,0)) is seen to return, in 1/10000
DirValues ==
    << <<0, 0, -10000>>, <<10000, 0, 0>>, <<0, -10000, 0>>,
       <<6000, 0, -8000>>, <<0, 0, 0>> >>

random_dir(s, id) == DirValues[((id * (s + 1) + s) % Len(DirValues)) + 1]

normalize_ter(s, id) == Normalize(random_dir(s, id))

scale_ter(s, id, terLength) == VecScale(normalize_ter(s, id), terLength)

\* ter_curve: the line from the origin to scale_ter, with the constant
\* radius of set_radius_ter
ter_curve(pt, in, s) ==
    Strict(LAMBDA endv :
               [parent |-> pt.parent, id |-> pt.id, t |-> pt.t,
                endv |-> endv, len |-> Norm(endv),
                radius |-> [k \in 1 .. 2 |-> in.terWidth]],
           scale_ter(s, pt.id, in.terLength))

\* instance_ter / realize_ter: one tertiary curve on every point (the node
\* has no Selection input linked)
instance_ter(points, in, s) ==
    [q \in 1 .. Len(points) |-> ter_curve(points[q], in, s)]

----------------------------------------------------------------------------
(* Leaves (lines 1168-1203) *)

\* curve_to_points_leaves in EVALUATED mode: the control points of the
\* tertiary lines, two on each
curve_to_points_leaves(curves) ==
    [p \in 1 .. Len(curves) * 2 |->
        [parent |-> ((p - 1) \div 2) + 1, id |-> p - 1,
         t |-> SplineFactor((p - 1) % 2, 2)]]

\* instance_leaves: one flattened sphere on every point, at the fixed scale
instance_leaves(points) ==
    [q \in 1 .. Len(points) |->
        [parent |-> points[q].parent, t |-> points[q].t,
         scale |-> <<LeafInstanceScale, LeafInstanceScale, LeafInstanceScale>>]]

----------------------------------------------------------------------------
(* Feature switches and final join (lines 1205-1251) *)

switch_secondary(in, curves) ==
    IF in.enableSecondary THEN to_mesh_sec(curves) ELSE empty_geometry

switch_tertiary(in, curves) ==
    IF in.enableTertiary THEN to_mesh_ter(curves) ELSE empty_geometry

switch_leaves(in, instances) ==
    IF in.enableLeaves THEN instances ELSE empty_geometry

\* GeometryNodeJoinGeometry: the mesh parts in link order, and the instances
join_all(in, main, sec, ter, lv) ==
    [mesh |-> input_geometry \o to_mesh(main) \o switch_secondary(in, sec)
                \o switch_tertiary(in, ter),
     instances |-> switch_leaves(in, lv)]

\* the levels whose geometry the joined output asks for: a switch evaluates
\* the input it passes on, and a level evaluates the level it samples
NeedSecondary(in) == in.enableSecondary \/ in.enableTertiary \/ in.enableLeaves

NeedTertiary(in) == in.enableTertiary \/ in.enableLeaves

NeedLeaves(in) == in.enableLeaves

----------------------------------------------------------------------------
(* Inputs of a generation request (lines 21-353, 393-420, 1297-1339) *)

\* growth_direction: the identifiers of the enum items, in their order
DirectionItems == <<"DOWN", "UP", "RADIAL", "DIAGONAL", "MIXED", "SPIRAL">>

\* FloatProperty(min, max): an assigned value below min becomes min, one
\* above max becomes max
FloatProperty(v, lo, hi) == Max(lo, Min(v, hi))

\* variant: a property keeps the value assigned to it
IntProperty_unbounded(v, lo, hi) == v

\* IntProperty(min, max): as FloatProperty
IntProperty(v, lo, hi) == Max(lo, Min(v, hi))

\* FibonacciRootProperties: the values the properties hold once the values
\* of req are assigned to them, each with the min and max of its declaration
FibonacciRootProperties(req) ==
    [rootLength |-> FloatProperty(req.rootLength, 1000, 200000),
     rootCount |-> IntProperty(req.rootCount, 1, 13),
     baseWidth |-> FloatProperty(req.baseWidth, 100, 10000),
     direction |-> req.direction,
     fibAngle |-> FloatProperty(req.fibAngle, 0, 3600),
     separation |-> FloatProperty(req.separation, 0, 20000),
     spread |-> FloatProperty(req.spread, 0, 900),
     individualGrowth |-> req.individualGrowth,
     growth |-> [k \in 1 .. Len(req.growth) |->
                    FloatProperty(req.growth[k], 0, 4236)],
     enableSecondary |-> req.enableSecondary,
     secDensity |-> FloatProperty(req.secDensity, 1, 50),
     secLength |-> FloatProperty(req.secLength, 1000, 100000),
     secWidth |-> FloatProperty(req.secWidth, 10, 5000),
     secAngle |-> FloatProperty(req.secAngle, 0, 900),
     enableTertiary |-> req.enableTertiary,
     terDensity |-> FloatProperty(req.terDensity, 1, 50),
     terLength |-> FloatProperty(req.terLength, 1000, 50000),
     terWidth |-> FloatProperty(req.terWidth, 10, 2000),
     enableLeaves |-> req.enableLeaves,
     leafSize |-> FloatProperty(req.leafSize, 100, 10000)]

\* direction_map.get(value, 0)
direction_map(value) ==
    CASE value = "DOWN" -> 0
      [] value = "UP" -> 1
      [] value = "RADIAL" -> 2
      [] value = "DIAGONAL" -> 3
      [] value = "MIXED" -> 4
      [] value = "SPIRAL" -> 5
      [] OTHER -> 0

\* the input sockets of the node group in the order in which the interface
\* gets them (lines 393-424).  A socket has the name of its property; the
\* five growth sockets are one entry, and the two noise sockets are left out
\* with the noise.
SocketOrder ==
    <<"rootLength", "rootCount", "baseWidth", "fibAngle", "separation", "spread",
      "direction", "individualGrowth", "growth", "enableSecondary", "secDensity",
      "secLength", "secWidth", "secAngle", "enableTertiary", "terDensity",
      "terLength", "terWidth", "enableLeaves", "leafSize">>

\* the first n sockets
SocketsBuilt(n) == {SocketOrder[k] : k \in 1 .. n}

SocketNames == SocketsBuilt(Len(SocketOrder))

\* mapping: the sockets that update_modifier_from_props has a property for
mapping ==
    {"rootLength", "rootCount", "baseWidth", "fibAngle", "separation", "spread",
     "direction", "individualGrowth", "growth", "enableSecondary", "secDensity",
     "secLength", "secWidth", "secAngle", "enableTertiary", "terDensity",
     "terLength", "terWidth", "enableLeaves", "leafSize"}

\* variant: a socket is written whether the modifier has it or not
update_modifier_from_props_absent(modifier, p) ==
    IF modifier.node_group = "none" THEN modifier.inputs
    ELSE [k \in DOMAIN modifier.inputs |->
            IF k \in mapping /\ k \in DOMAIN p
            THEN IF k = "direction" THEN direction_map(p[k]) ELSE p[k]
            ELSE modifier.inputs[k]]

\* update_modifier_from_props on a modifier [node_group, sockets, inputs]:
\* the values of the modifier afterwards.  Nothing is written without a node
\* group; with one, every property of the mapping whose socket the modifier
\* has is written to it, the growth direction as its number.
update_modifier_from_props(modifier, p) ==
    IF modifier.node_group = "none" THEN modifier.inputs
    ELSE [k \in DOMAIN modifier.inputs |->
            IF k \in mapping /\ k \in DOMAIN p /\ k \in modifier.sockets
            THEN IF k = "direction" THEN direction_map(p[k]) ELSE p[k]
            ELSE modifier.inputs[k]]

\* the default values of the node group's input sockets (lines 393-420)
SocketDefaults ==
    [rootLength |-> 10 * LenUnit, rootCount |-> 5, baseWidth |-> 3000,
     direction |-> 0, fibAngle |-> 1375, separation |-> 2000, spread |-> 150,
     individualGrowth |-> FALSE, growth |-> <<1000, 1000, 1000, 1000, 1000>>,
     enableSecondary |-> TRUE, secDensity |-> 20,
     secLength |-> 10000, secWidth |-> 800, secAngle |-> 450,
     enableTertiary |-> TRUE, terDensity |-> 15,
     terLength |-> 3000, terWidth |-> 300,
     enableLeaves |-> FALSE, leafSize |-> 3000]

\* the modifier of a new root object on the node group g with the given
\* sockets: every socket at its default
NewModifier(g, sockets) ==
    [node_group |-> g, sockets |-> sockets, inputs |-> SocketDefaults]

\* the property defaults, with the two densities at the model's bounds
Defaults ==
    [rootLength |-> 10 * LenUnit, rootCount |-> 1, baseWidth |-> 3000,
     direction |-> "DOWN", fibAngle |-> 1375, separation |-> 2000, spread |-> 150,
     individualGrowth |-> FALSE, growth |-> <<618, 1000, 1618, 2618, 4236>>,
     enableSecondary |-> TRUE, secDensity |-> MaxSecDensity,
     secLength |-> 38200, secWidth |-> 800, secAngle |-> 450,
     enableTertiary |-> TRUE, terDensity |-> MaxTerDensity,
     terLength |-> 23600, terWidth |-> 300,
     enableLeaves |-> FALSE, leafSize |-> 3000]

\* every number of roots
CountRequests ==
    {[Defaults EXCEPT !.rootCount = n, !.enableSecondary = FALSE,
                      !.enableTertiary = FALSE] : n \in 1 .. MaxRoots}

\* every combination of the enable flags
FlagRequests ==
    {[Defaults EXCEPT !.rootCount = n, !.enableSecondary = es,
                      !.enableTertiary = et, !.enableLeaves = el] :
        n \in 1 .. 2, es \in BOOLEAN, et \in BOOLEAN, el \in BOOLEAN}

\* every density of the two branch levels
DensityRequests ==
    {[Defaults EXCEPT !.secDensity = sd, !.terDensity = td, !.enableLeaves = el] :
        sd \in 1 .. MaxSecDensity, td \in 1 .. MaxTerDensity, el \in BOOLEAN}

\* every growth direction, with individual growth off, on, and on with
\* multipliers at the ends of their range
GrowthRequests ==
    {[Defaults EXCEPT !.rootCount = 2, !.direction = d, !.individualGrowth = ig,
                      !.growth = g, !.enableSecondary = FALSE,
                      !.enableTertiary = FALSE] :
        d \in {DirectionItems[k] : k \in 1 .. Len(DirectionItems)},
        ig \in BOOLEAN,
        g \in {Defaults.growth, <<0, 4236, 1000, 0, 618>>}}

\* more roots than multipliers, and a single root, with individual growth
\* off and on
CycleRequests ==
    {[Defaults EXCEPT !.rootCount = n, !.individualGrowth = ig, !.growth = g,
                      !.enableSecondary = FALSE, !.enableTertiary = FALSE] :
        n \in {1, MaxRoots}, ig \in BOOLEAN,
        g \in {Defaults.growth, <<0, 4236, 1000, 0, 618>>}}

\* widths at the ends of their ranges and in between
WidthRequests ==
    {[Defaults EXCEPT !.baseWidth = bw, !.secWidth = sw, !.terWidth = tw] :
        bw \in {100, 3000, 10000}, sw \in {10, 60, 800, 5000}, tw \in {10, 300}}

\* angles and separations at the ends of their ranges and in between
AngleRequests ==
    {[Defaults EXCEPT !.rootCount = MaxRoots, !.fibAngle = a, !.separation = sp,
                      !.spread = sd, !.enableSecondary = FALSE,
                      !.enableTertiary = FALSE] :
        a \in {0, 900, 1375, 2225, 3600}, sp \in {0, 2000, 20000},
        sd \in {0, 900}}

\* spread angles over their range in the four base directions
SpreadRequests ==
    {[Defaults EXCEPT !.rootCount = 2, !.direction = d, !.spread = sd,
                      !.enableSecondary = FALSE, !.enableTertiary = FALSE] :
        d \in {"DOWN", "UP", "RADIAL", "DIAGONAL"}, sd \in {0, 1, 455, 900}}

\* leaf sizes at the ends of their range, with leaves enabled
LeafRequests ==
    {[Defaults EXCEPT !.enableLeaves = TRUE, !.leafSize = ls] :
        ls \in {100, 10000}}

\* branches on three roots: enough tertiary curves for every direction of
\* DirValues to be drawn
BranchRequests == {[Defaults EXCEPT !.rootCount = 3]}

\* branch angles at the ends of their range
SecAngleRequests == {[Defaults EXCEPT !.secAngle = a] : a \in {0, 900}}

\* tertiary radii at and below the weld distance
JunctionRequests ==
    {[Defaults EXCEPT !.terWidth = tw] : tw \in {50, 80, WeldDistance}}

\* the shortest root and the shortest branches
LengthRequests ==
    {[Defaults EXCEPT !.rootLength = LenUnit \div 10, !.secLength = LenUnit \div 10,
                      !.terLength = LenUnit \div 10, !.enableLeaves = el] :
        el \in BOOLEAN}

ParameterSets ==
    CountRequests \cup FlagRequests \cup DensityRequests \cup GrowthRequests
        \cup CycleRequests \cup WidthRequests \cup AngleRequests
        \cup LengthRequests \cup JunctionRequests \cup SpreadRequests
        \cup LeafRequests \cup BranchRequests \cup SecAngleRequests

\* the state in which the add operator has finished for one set of property
\* values: one root object, its modifier on the complete node group, the
\* property values written to the modifier, nothing evaluated yet
Init ==
    /\ supplied \in ParameterSets
    /\ props = FibonacciRootProperties(supplied)
    /\ inputs = update_modifier_from_props(NewModifier("complete", SocketNames),
                                           props)
    /\ scene = [objects |-> 1, group |-> "complete", sockets |-> SocketNames,
                active |-> "set"]
    /\ result = "FINISHED"
    /\ seed \in IF NeedSecondary(inputs) THEN 0 .. MaxSeed ELSE {0}
    /\ pc = "Init"
    /\ mainCurves = <<>>
    /\ secPoints = <<>>
    /\ secCurves = <<>>
    /\ terPoints = <<>>
    /\ terCurves = <<>>
    /\ leaves = <<>>
    /\ out = [mesh |-> <<>>, instances |-> <<>>]

----------------------------------------------------------------------------
(* Levels of one generation request *)

\* the main root on grid point i: the one curve that curve line, resample
\* and scale_curve make, instanced by instance_curves with its rotation at
\* set_fib_pos, and set_radius
main_curve(i, in, read) ==
    Strict(LAMBDA endv :
               [index |-> i,
                offset |-> combine_fib_pos(i, in.fibAngle, in.separation),
                rotation |-> switch_rotation_2(in.direction, i, in.fibAngle,
                                               in.spread),
                endv |-> endv, len |-> Norm(endv),
                radius |-> [k \in 1 .. ResampleCount |->
                               mult_width(in.baseWidth,
                                          SplineFactor(k - 1, ResampleCount))]],
           scale_curve(switch_diagonal(in.direction, in.rootLength),
                       scale_input(in, read)))

\* instance_curves / realize_instances: one curve on every grid point
realize_instances(in, read) ==
    [r \in 1 .. Cardinality(mesh_grid(in.rootCount)) |->
        main_curve(r - 1, in, read)]

MainRoots ==
    /\ pc = "Init"
    /\ \E read \in ScaleReadsOf(inputs) :
          mainCurves' = realize_instances(inputs, read)
    /\ pc' = "MainRoots"
    /\ UNCHANGED <<supplied, props, scene, result, inputs, seed, secPoints, secCurves, terPoints, terCurves,
                   leaves, out>>

SecondaryRoots ==
    /\ pc = "MainRoots"
    /\ NeedSecondary(inputs)
    /\ secPoints' = curve_to_points(mainCurves, inputs.secDensity)
    /\ secCurves' = instance_sec(secPoints', mainCurves, inputs, seed)
    /\ pc' = "SecondaryRoots"
    /\ UNCHANGED <<supplied, props, scene, result, inputs, seed, mainCurves, terPoints, terCurves, leaves, out>>

TertiaryRoots ==
    /\ pc = "SecondaryRoots"
    /\ NeedTertiary(inputs)
    /\ terPoints' = curve_to_points(secCurves, inputs.terDensity)
    /\ terCurves' = instance_ter(terPoints', inputs, seed)
    /\ pc' = "TertiaryRoots"
    /\ UNCHANGED <<supplied, props, scene, result, inputs, seed, mainCurves, secPoints, secCurves, leaves, out>>

Leaves ==
    /\ pc = "TertiaryRoots"
    /\ NeedLeaves(inputs)
    /\ leaves' = instance_leaves(curve_to_points_leaves(terCurves))
    /\ pc' = "Leaves"
    /\ UNCHANGED <<supplied, props, scene, result, inputs, seed, mainCurves, secPoints, secCurves, terPoints,
                   terCurves, out>>

\* join_all and merge_by_dist, once every level that is asked for is there
Merge ==
    /\ \/ pc = "MainRoots" /\ ~NeedSecondary(inputs)
       \/ pc = "SecondaryRoots" /\ ~NeedTertiary(inputs)
       \/ pc = "TertiaryRoots" /\ ~NeedLeaves(inputs)
       \/ pc = "Leaves"
    /\ \E joined \in {join_all(inputs, mainCurves, secCurves, terCurves, leaves)} :
          out' = [mesh |-> merge_by_dist(joined.mesh),
                  instances |-> joined.instances]
    /\ pc' = "Merge"
    /\ UNCHANGED <<supplied, props, scene, result, inputs, seed, mainCurves, secPoints, secCurves, terPoints,
                   terCurves, leaves>>

\* variant: the merged geometry is sent back to the leaf level
Done_again ==
    /\ pc = "Merge"
    /\ pc' = "Leaves"
    /\ UNCHANGED <<supplied, props, scene, result, inputs, seed, mainCurves, secPoints, secCurves, terPoints,
                   terCurves, leaves, out>>

\* group_output receives the merged geometry
Done ==
    /\ pc = "Merge"
    /\ pc' = "Done"
    /\ UNCHANGED <<supplied, props, scene, result, inputs, seed, mainCurves, secPoints, secCurves, terPoints,
                   terCurves, leaves, out>>

Next ==
    \/ MainRoots
    \/ SecondaryRoots
    \/ TertiaryRoots
    \/ Leaves
    \/ Merge
    \/ Done

Spec == Init /\ [][Next]_vars

\* a request that has started is evaluated to its end
FairSpec == Spec /\ WF_vars(Next)

----------------------------------------------------------------------------
(* The add-on's operators and property callback (lines 355-424, 1253-1359) *)

\* values assigned to the properties, inside and outside their ranges
OperatorRequests ==
    {[Defaults EXCEPT !.enableLeaves = TRUE]}
    \cup {[Defaults EXCEPT !.rootCount = n, !.enableSecondary = FALSE,
                           !.enableTertiary = FALSE] : n \in {-3, 0, 2, 20}}
    \cup {[Defaults EXCEPT !.rootLength = L, !.baseWidth = w, !.separation = sp,
                           !.enableSecondary = FALSE, !.enableTertiary = FALSE] :
             L \in {0, 30 * LenUnit}, w \in {0, 20000}, sp \in {-5000, 30000}}
    \cup {[Defaults EXCEPT !.rootCount = 2, !.individualGrowth = TRUE,
                           !.growth = <<-1000, 5000, 1000, 0, 4236>>,
                           !.enableSecondary = FALSE, !.enableTertiary = FALSE]}
    \cup {[Defaults EXCEPT !.secDensity = sd, !.terDensity = td] :
             sd \in {0, MaxSecDensity}, td \in {-2, MaxTerDensity}}
    \cup {[Defaults EXCEPT !.direction = d, !.enableSecondary = FALSE,
                           !.enableTertiary = FALSE] : d \in {"RADIAL", "SPIRAL"}}

\* the state after register(): no root object, no node group, property
\* values assigned, nothing generated
OperatorInit ==
    /\ supplied \in OperatorRequests
    /\ props = FibonacciRootProperties(supplied)
    /\ inputs = SocketDefaults
    /\ scene = [objects |-> 0, group |-> "none", sockets |-> {},
                active |-> "none"]
    /\ result = "none"
    /\ seed \in 0 .. MaxSeed
    /\ pc = "Idle"
    /\ mainCurves = <<>>
    /\ secPoints = <<>>
    /\ secCurves = <<>>
    /\ terPoints = <<>>
    /\ terCurves = <<>>
    /\ leaves = <<>>
    /\ out = [mesh |-> <<>>, instances |-> <<>>]

\* numbers of sockets a group has that was left unfinished: the exception
\* came before the first socket, within the loop that makes them, or after it
PartialCounts == {0, 3, Len(SocketOrder)}

\* create_root_geometry_nodes: what is in bpy.data.node_groups when it
\* returns, as <<group, sockets>>.  An exception in node_groups.new leaves no
\* group, a later one leaves the group as far as it was built (the except
\* branch removes nothing), no exception leaves the complete group.
create_root_geometry_nodes ==
    {<<"none", {}>>, <<"complete", SocketNames>>}
        \cup {<<"partial", SocketsBuilt(n)>> : n \in PartialCounts}

\* the modifier "Fibonacci Roots" of the active object
Modifier ==
    [node_group |-> IF scene.active = "set" THEN scene.group ELSE "none",
     sockets |-> scene.sockets, inputs |-> inputs]

\* the modifier's sockets are written and the active object is evaluated
\* from its first level on
Regenerate(in) ==
    /\ inputs' = in
    /\ pc' = "Init"
    /\ mainCurves' = <<>>
    /\ secPoints' = <<>>
    /\ secCurves' = <<>>
    /\ terPoints' = <<>>
    /\ terCurves' = <<>>
    /\ leaves' = <<>>
    /\ out' = [mesh |-> <<>>, instances |-> <<>>]

\* the modifier's sockets are written; an unfinished group has no link to
\* its output and nothing is evaluated
WriteOnly(in) ==
    /\ inputs' = in
    /\ UNCHANGED <<pc, mainCurves, secPoints, secCurves, terPoints, terCurves,
                   leaves, out>>

\* MESH_OT_add_fibonacci_root_system.execute
MESH_OT_add_fibonacci_root_system ==
    /\ pc \in {"Idle", "Done"}
    /\ scene.objects < MaxObjects
    /\ \/ \* primitive_plane_add raises: nothing was made
          /\ result' = "CANCELLED"
          /\ UNCHANGED <<supplied, props, scene, inputs, seed, pc, mainCurves,
                         secPoints, secCurves, terPoints, terCurves, leaves, out>>
       \/ \* the plane is added; the group is built if there is none
          \E g \in IF scene.group = "none" THEN create_root_geometry_nodes
                                            ELSE {<<scene.group, scene.sockets>>} :
              /\ UNCHANGED <<supplied, props, seed>>
              /\ IF g[1] = "none"
                 THEN \* the modifier is added, node_groups[...] raises KeyError
                      /\ scene' = [objects |-> scene.objects + 1, group |-> g[1],
                                   sockets |-> g[2], active |-> "unset"]
                      /\ result' = "CANCELLED"
                      /\ UNCHANGED <<inputs, pc, mainCurves, secPoints, secCurves,
                                     terPoints, terCurves, leaves, out>>
                 ELSE /\ scene' = [objects |-> scene.objects + 1, group |-> g[1],
                                   sockets |-> g[2], active |-> "set"]
                      /\ result' = "FINISHED"
                      /\ IF g[1] = "complete"
                         THEN Regenerate(update_modifier_from_props(
                                             NewModifier(g[1], g[2]), props))
                         ELSE WriteOnly(update_modifier_from_props(
                                            NewModifier(g[1], g[2]), props))

\* update_modifier: the update callback of every property, after a value
\* is assigned
update_modifier ==
    /\ pc \in {"Idle", "Done"}
    /\ \E req \in OperatorRequests :
          /\ supplied' = req
          /\ props' = FibonacciRootProperties(req)
          /\ IF Modifier.node_group = "complete"
             THEN Regenerate(update_modifier_from_props(Modifier, props'))
             ELSE WriteOnly(update_modifier_from_props(Modifier, props'))
    /\ result' = "none"
    /\ UNCHANGED <<scene, seed>>

\* MESH_OT_update_fibonacci_root: poll and execute
MESH_OT_update_fibonacci_root ==
    /\ pc \in {"Idle", "Done"}
    /\ scene.active # "none"
    /\ result' = "FINISHED"
    /\ IF Modifier.node_group = "complete"
       THEN Regenerate(update_modifier_from_props(Modifier, props))
       ELSE WriteOnly(update_modifier_from_props(Modifier, props))
    /\ UNCHANGED <<supplied, props, scene, seed>>

OperatorNext ==
    \/ MESH_OT_add_fibonacci_root_system
    \/ update_modifier
    \/ MESH_OT_update_fibonacci_root
    \/ MainRoots
    \/ SecondaryRoots
    \/ TertiaryRoots
    \/ Leaves
    \/ Merge
    \/ Done

OperatorSpec == OperatorInit /\ [][OperatorNext]_vars

----------------------------------------------------------------------------
(* Properties *)

\* position of a level in the order of one request
Rank(p) ==
    CASE p = "Init" -> 0
      [] p = "MainRoots" -> 1
      [] p = "SecondaryRoots" -> 2
      [] p = "TertiaryRoots" -> 3
      [] p = "Leaves" -> 4
      [] p = "Merge" -> 5
      [] p = "Done" -> 6

\* the islands of the returned mesh that come from the given level
IslandsOf(level) == {m \in 1 .. Len(out.mesh) : out.mesh[m].level = level}

\* u and v are closer to each other than the weld distance
Closer(u, v) ==
    /\ Abs(u[1] - v[1]) < WeldDistance
    /\ Abs(u[2] - v[2]) < WeldDistance
    /\ Abs(u[3] - v[3]) < WeldDistance
    /\ (u[1] - v[1]) * (u[1] - v[1]) + (u[2] - v[2]) * (u[2] - v[2])
         + (u[3] - v[3]) * (u[3] - v[3]) < WeldDistance * WeldDistance

\* the sampled point q of the main roots carries a secondary curve
IsSite(q) == \E c \in 1 .. Len(secCurves) : secCurves[c].id = secPoints[q].id

\* C1: for every combination of the enable flags a request moves through
\* Init, MainRoots, [SecondaryRoots], [TertiaryRoots], [Leaves], Merge, Done
\* in this order, every step going to a later level, and it always reaches
\* Merge and, from Merge, Done.
C1_FixedOrder ==
    /\ [][Rank(pc') > Rank(pc)]_vars
    /\ [][pc' = "Done" => pc = "Merge"]_vars
    /\ [][pc = "Init" => pc' = "MainRoots"]_vars
    /\ <>(pc = "Merge")
    /\ (pc = "Merge") ~> (pc = "Done")

\* a request with every optional level disabled has reached Done
C1_Witness ==
    /\ pc = "Done"
    /\ ~inputs.enableSecondary
    /\ ~inputs.enableTertiary
    /\ ~inputs.enableLeaves
    /\ secCurves = <<>>
    /\ Len(out.mesh) > 0

\* C2: with secondary roots disabled the returned mesh has no tube from the
\* secondary level and none from the tertiary level, whatever the tertiary
\* flag is.
C2_NoBranchTubesWithoutSecondary ==
    (pc = "Done" /\ ~inputs.enableSecondary)
        => (IslandsOf("secondary") = {} /\ IslandsOf("tertiary") = {})

\* C3: leaf geometry is in the returned geometry only when the leaf flag,
\* the tertiary flag and the secondary flag are all enabled.
C3_LeavesNeedAllFlags ==
    (pc = "Done" /\ out.instances # <<>>)
        => (inputs.enableLeaves /\ inputs.enableTertiary /\ inputs.enableSecondary)

\* C4: every request terminates, and the mesh it returns has vertices of
\* every main root, so at least one vertex; also with a growth multiplier 0.
C4_TerminatesWithMainGeometry ==
    /\ <>(pc = "Done")
    /\ [](pc = "Done" =>
            /\ inputs.rootCount >= 1
            /\ \A r \in 1 .. inputs.rootCount :
                  \E m \in IslandsOf("main") :
                      out.mesh[m].curve = r /\ Len(out.mesh[m].verts) >= 1)

\* a request whose first root has growth multiplier 0 and has collapsed to a
\* point has returned main-root vertices
C4_Witness ==
    /\ pc = "Done"
    /\ inputs.individualGrowth
    /\ inputs.growth[1] = 0
    /\ mainCurves[1].len = 0
    /\ \E m \in IslandsOf("main") :
          out.mesh[m].curve = 1 /\ Len(out.mesh[m].verts) >= 1

\* C5: in the returned mesh no two distinct vertices are closer to each
\* other than the weld distance 0.01.
C5_NoCloseVertices ==
    pc = "Done" =>
        \A m \in 1 .. Len(out.mesh) :
            \A a, b \in 1 .. Len(out.mesh[m].verts) :
                a < b => ~Closer(out.mesh[m].verts[a], out.mesh[m].verts[b])

\* C6: the weld applied to the mesh the weld returned gives the same
\* vertices again.
C6_WeldIdempotent ==
    pc = "Done" => merge_by_dist(out.mesh) = out.mesh

\* C7: every secondary and every tertiary branch in the returned mesh
\* starts at a factor t of its parent curve with 0.2 <= t <= 0.8.
C7_BranchesStartInZone ==
    pc = "Done" =>
        /\ \A m \in IslandsOf("secondary") :
              /\ secCurves[out.mesh[m].curve].t >= ZoneLow
              /\ secCurves[out.mesh[m].curve].t <= ZoneHigh
        /\ \A m \in IslandsOf("tertiary") :
              /\ terCurves[out.mesh[m].curve].t >= ZoneLow
              /\ terCurves[out.mesh[m].curve].t <= ZoneHigh

\* C8 as stated: a sample of a main root is a branch site exactly when
\* 0.2 <= t <= 0.8, both ends included, and its draw is below 0.4.
C8_InclusiveZone ==
    \A q \in 1 .. Len(secPoints) :
        IsSite(q) <=>
            /\ secPoints[q].t >= ZoneLow
            /\ secPoints[q].t <= ZoneHigh
            /\ random_value(seed, secPoints[q].id) < BranchChance

\* C8: a sample of a main root is a branch site exactly when 0.2 < t < 0.8,
\* both ends excluded, and its draw is below 0.4; every other sample carries
\* no curve, so no geometry.
C8_ExclusiveZone ==
    /\ \A q \in 1 .. Len(secPoints) :
          IsSite(q) <=>
              /\ secPoints[q].t > ZoneLow
              /\ secPoints[q].t < ZoneHigh
              /\ random_value(seed, secPoints[q].id) < BranchChance
    /\ \A c \in 1 .. Len(secCurves) :
          \E q \in 1 .. Len(secPoints) : secPoints[q].id = secCurves[c].id
    /\ Len(secCurves) = Cardinality({q \in 1 .. Len(secPoints) : IsSite(q)})

\* a sample exactly at t = 0.2 with a draw below 0.4 is not a site, while
\* another sample of the same request is
C8_Witness ==
    /\ pc = "SecondaryRoots"
    /\ secCurves # <<>>
    /\ \E q \in 1 .. Len(secPoints) :
          /\ secPoints[q].t = ZoneLow
          /\ random_value(seed, secPoints[q].id) < BranchChance
          /\ ~IsSite(q)

\* the factors at which the taper is compared
TaperGrid == {(k * TScale) \div 20 : k \in 0 .. 20}

\* C9: on every main and secondary curve the radius does not grow with t,
\* is never negative, is the level's width at t = 0 and is 0 at t = 1.
C9_TaperMonotone ==
    /\ \A r \in 1 .. Len(mainCurves) :
          LET rad == mainCurves[r].radius
          IN  /\ \A a, b \in 1 .. Len(rad) : a <= b => rad[a] >= rad[b]
              /\ \A a \in 1 .. Len(rad) : rad[a] >= 0
              /\ rad[1] = inputs.baseWidth
              /\ rad[Len(rad)] = 0
    /\ \A c \in 1 .. Len(secCurves) :
          LET rad == secCurves[c].radius
          IN  /\ \A a, b \in 1 .. Len(rad) : a <= b => rad[a] >= rad[b]
              /\ \A a \in 1 .. Len(rad) : rad[a] >= 0
              /\ rad[1] = inputs.secWidth
              /\ rad[Len(rad)] = 0
    /\ pc = "MainRoots" =>
          \A t1, t2 \in TaperGrid :
              t1 <= t2 =>
                  /\ mult_width(inputs.baseWidth, t1)
                        >= mult_width(inputs.baseWidth, t2)
                  /\ mult_width_sec(inputs.secWidth, t1)
                        >= mult_width_sec(inputs.secWidth, t2)
                  /\ mult_width(inputs.baseWidth, t2) >= 0
                  /\ mult_width_sec(inputs.secWidth, t2) >= 0

\* tapered curves of both levels exist, and the main radius falls strictly
C9_Witness ==
    /\ pc = "SecondaryRoots"
    /\ secCurves # <<>>
    /\ mainCurves[1].radius[1] > mainCurves[1].radius[2]
    /\ secCurves[1].radius[1] > secCurves[1].radius[2]

\* C10: the offset angle of root i is i times the golden angle, so from any
\* root to the next the offset angle advances by the golden angle, modulo a
\* full turn.
C10_GoldenAngle ==
    LET golden == (inputs.fibAngle * (FullTurn \div 3600)) % FullTurn
    IN  /\ \A r \in 1 .. Len(mainCurves) :
              mainCurves[r].offset.angle = ((r - 1) * golden) % FullTurn
        /\ \A r \in 1 .. Len(mainCurves) - 1 :
              (mainCurves[r + 1].offset.angle - mainCurves[r].offset.angle)
                  % FullTurn = golden

\* the largest number of roots stands at the default golden angle, and the
\* offsets have gone around more than one full turn
C10_Witness ==
    /\ pc = "MainRoots"
    /\ Len(mainCurves) = MaxRoots
    /\ inputs.fibAngle = 1375
    /\ mainCurves[MaxRoots].offset.angle
          # (MaxRoots - 1) * inputs.fibAngle * (FullTurn \div 3600)

\* the separations at which the placement radius is compared: below, at
\* and above both ends of its clamp
SeparationGrid == {-10000, 0, 499, 500, 501, 2000, 10000, 19999, 20000, 20001, 50000}

\* the separation lies inside the clamp of clamp_separation
InClamp(sep) == MinSeparation <= sep /\ sep <= MaxSeparation

\* C11: for a fixed root index and two separations s1 < s2 inside [0.05, 2]
\* the planar distance of the root's origin from the centre is strictly
\* larger for s2, and the distance is the separation plus 0.1.
C11_SeparationMonotone ==
    \A r \in 1 .. Len(mainCurves) :
        InClamp(inputs.separation) =>
            /\ mainCurves[r].offset.radius = inputs.separation + MinRadius
            /\ \A s \in SeparationGrid :
                  InClamp(s) =>
                      /\ s > inputs.separation =>
                            combine_fib_pos(r - 1, inputs.fibAngle, s).radius
                                > mainCurves[r].offset.radius
                      /\ s < inputs.separation =>
                            combine_fib_pos(r - 1, inputs.fibAngle, s).radius
                                < mainCurves[r].offset.radius

\* roots stand at separation 0.2, and the last of them would stand farther
\* out at separation 2
C11_Witness ==
    /\ pc = "MainRoots"
    /\ Len(mainCurves) = MaxRoots
    /\ inputs.separation = 2000
    /\ mainCurves[MaxRoots].offset.radius = 3000
    /\ combine_fib_pos(MaxRoots - 1, inputs.fibAngle, MaxSeparation).radius = 21000

\* C12: for every separation, also 0, negative values and values above 2,
\* the radius that places the root origins lies in [0.15, 2.1], so it is
\* never zero.
C12_RadiusNeverZero ==
    /\ \A r \in 1 .. Len(mainCurves) :
          /\ mainCurves[r].offset.radius >= 1500
          /\ mainCurves[r].offset.radius <= 21000
    /\ pc = "MainRoots" =>
          \A s \in SeparationGrid :
              \A i \in mesh_grid(inputs.rootCount) :
                  /\ combine_fib_pos(i, inputs.fibAngle, s).radius >= 1500
                  /\ combine_fib_pos(i, inputs.fibAngle, s).radius <= 21000

\* roots placed at separation 0 stand at radius 0.15
C12_Witness ==
    /\ pc = "MainRoots"
    /\ inputs.separation = 0
    /\ Len(mainCurves) = MaxRoots
    /\ \A r \in 1 .. Len(mainCurves) : mainCurves[r].offset.radius = 1500

\* the length scale C13 expects for the root with index i
ExpectedGrowth(i) ==
    IF inputs.individualGrowth THEN inputs.growth[(i % 5) + 1] ELSE GrowthUnit

\* C13: the length scale applied to root i is 1.0 when individual growth is
\* disabled, whatever the five multipliers are, and multiplier[i mod 5] when
\* it is enabled.
C13_CyclicGrowth ==
    \A r \in 1 .. Len(mainCurves) :
        /\ growth_switch(r - 1, inputs.individualGrowth, inputs.growth)
              = ExpectedGrowth(r - 1)
        /\ mainCurves[r].endv
              = scale_curve(switch_diagonal(inputs.direction, inputs.rootLength),
                            <<GrowthUnit, GrowthUnit, ExpectedGrowth(r - 1)>>)

\* with individual growth enabled and more roots than multipliers, the sixth
\* root has the length of the first and not of the second
C13_Witness ==
    /\ pc = "MainRoots"
    /\ inputs.individualGrowth
    /\ Len(mainCurves) > 5
    /\ inputs.growth[1] # inputs.growth[2]
    /\ mainCurves[6].endv = mainCurves[1].endv
    /\ mainCurves[6].endv # mainCurves[2].endv
    /\ mainCurves[2].endv[3] = -((inputs.rootLength * inputs.growth[2]) \div GrowthUnit)

\* the main roots that have a tube in the returned mesh
MainTubes == {out.mesh[m].curve : m \in IslandsOf("main")}

C15_BaseVectors ==
    LET L == inputs.rootLength
    IN  /\ \A r \in 1 .. Len(mainCurves) :
              ~inputs.individualGrowth =>
                  /\ inputs.direction = 0 => mainCurves[r].endv = <<0, 0, -L>>
                  /\ inputs.direction = 1 => mainCurves[r].endv = <<0, 0, L>>
                  /\ inputs.direction = 2 => mainCurves[r].endv = <<L, 0, 0>>
                  /\ inputs.direction = 3 =>
                        mainCurves[r].endv = <<(7 * L) \div 10, 0, -((7 * L) \div 10)>>
        /\ pc = "MainRoots" =>
              \A d1, d2 \in 0 .. 3 :
                  d1 # d2 => switch_diagonal(d1, L) # switch_diagonal(d2, L)

\* a Diagonal request of length 10 has its roots along (7, 0, -7)
C15_Witness ==
    /\ pc = "MainRoots"
    /\ inputs.direction = 3
    /\ ~inputs.individualGrowth
    /\ inputs.rootLength = 10 * LenUnit
    /\ Len(mainCurves) = 2
    /\ mainCurves[2].endv = <<7 * LenUnit, 0, -7 * LenUnit>>

\* the four base vectors of a root of length L
BaseVectors(L) ==
    {<<0, 0, -L>>, <<0, 0, L>>, <<L, 0, 0>>, <<(7 * L) \div 10, 0, -((7 * L) \div 10)>>}

\* the base vectors that roots of Mixed requests of length L take, over all
\* requests, roots and reads
MixedOutcomes(L) ==
    {main_curve(i, in, read).endv :
        in \in {update_modifier_from_props(NewModifier("complete", SocketNames),
                                           FibonacciRootProperties(p)) :
                    p \in {q \in ParameterSets : q.direction = "MIXED"
                                                    /\ q.rootLength = L
                                                    /\ ~q.individualGrowth}},
        i \in 0 .. (MaxRoots - 1), read \in TransformScaleReads}

\* C16: with growth direction Mixed every one of the four base vectors is a
\* possible base vector of a root, and two roots of one system can have
\* different base vectors.
C16_MixedPerRoot ==
    (pc = "MainRoots" /\ inputs.direction = 4 /\ ~inputs.individualGrowth) =>
        /\ BaseVectors(inputs.rootLength) \subseteq MixedOutcomes(inputs.rootLength)
        /\ \E i, j \in 0 .. (MaxRoots - 1) :
              \E read \in TransformScaleReads :
                  main_curve(i, inputs, read).endv # main_curve(j, inputs, read).endv

\* C17: with growth direction Spiral the base direction vector, before any
\* rotation, is the Radial vector (L,0,0).
C17_SpiralIsRadial ==
    (inputs.direction = 5 /\ ~inputs.individualGrowth) =>
        \A r \in 1 .. Len(mainCurves) :
            mainCurves[r].endv = <<inputs.rootLength, 0, 0>>

\* the factors of the accepted branch sites of main root r among curves cs
SitesOf(cs, r) == {cs[c].t : c \in {x \in 1 .. Len(cs) : cs[x].parent = r}}

\* the accepted branch sites of main root r in the request of the state with
\* n roots in place of its own number
SitesWithRoots(n, r) ==
    LET alt == [inputs EXCEPT !.rootCount = n]
    IN  {SitesOf(instance_sec(curve_to_points(realize_instances(alt, read),
                                              alt.secDensity),
                              realize_instances(alt, read), alt, seed), r) :
            read \in ScaleReadsOf(alt)}

C19_FailureLeavesOutput ==
    [][(result' = "CANCELLED" \/ (scene'.group = "partial" /\ scene.group # "partial"))
          => (scene' = scene /\ inputs' = inputs /\ out' = out)]_vars

\* the value w is the value v brought into lo .. hi
Clamped(v, w, lo, hi) == w = (IF v < lo THEN lo ELSE IF v > hi THEN hi ELSE v)

\* every bounded field of the parameter record p is inside its documented
\* range
InDocumentedRange(p) ==
    /\ p.rootCount >= 1 /\ p.rootCount <= 13
    /\ p.rootLength >= 1000 /\ p.rootLength <= 200000
    /\ p.baseWidth >= 100 /\ p.baseWidth <= 10000
    /\ p.spread >= 0 /\ p.spread <= 900
    /\ p.separation >= 0 /\ p.separation <= 20000
    /\ \A k \in 1 .. Len(p.growth) : p.growth[k] >= 0 /\ p.growth[k] <= 4236
    /\ p.secDensity >= 1
    /\ p.terDensity >= 1

\* C20: whatever value is assigned to a bounded numeric parameter, the value
\* the properties hold and the value the generator uses are inside the
\* documented range: a value outside is brought to the nearest end of the
\* range, not refused and not used as given.
C20_ClampedBeforeUse ==
    /\ InDocumentedRange(props)
    /\ Clamped(supplied.rootCount, props.rootCount, 1, 13)
    /\ Clamped(supplied.rootLength, props.rootLength, 1000, 200000)
    /\ Clamped(supplied.baseWidth, props.baseWidth, 100, 10000)
    /\ Clamped(supplied.separation, props.separation, 0, 20000)
    /\ \A k \in 1 .. Len(props.growth) :
          Clamped(supplied.growth[k], props.growth[k], 0, 4236)
    /\ Clamped(supplied.secDensity, props.secDensity, 1, 50)
    /\ Clamped(supplied.terDensity, props.terDensity, 1, 50)
    /\ pc # "Idle" =>
          /\ InDocumentedRange(inputs)
          /\ inputs = update_modifier_from_props(NewModifier("complete", SocketNames),
                                                 props)
          /\ Rank(pc) >= 1 => Len(mainCurves) = props.rootCount

\* a root count of 20 was assigned, and the system generated has 13 roots
C20_Witness ==
    /\ pc = "Done"
    /\ supplied.rootCount = 20
    /\ inputs.rootCount = 13
    /\ Len(mainCurves) = 13
    /\ MainTubes = 1 .. 13


----------------------------------------------------------------------------
\* the mesh parts of a joined mesh linked to the join in another order: the
\* tertiary tubes before the secondary tubes
OtherJoinOrder(mesh) ==
    SelectSeq(mesh, LAMBDA x : x.level \in {"input", "main"})
        \o SelectSeq(mesh, LAMBDA x : x.level = "tertiary")
        \o SelectSeq(mesh, LAMBDA x : x.level = "secondary")

\* the vertices of a welded mesh, each with the place it belongs to: the
\* junction, or the tube of its curve
VertexSet(mesh) ==
    UNION {{<<IF mesh[m].at # 0 THEN <<"junction", mesh[m].at>>
              ELSE <<mesh[m].level, mesh[m].curve>>, mesh[m].verts[v]>> :
                v \in 1 .. Len(mesh[m].verts)} : m \in 1 .. Len(mesh)}

\* C21: the weld of the mesh parts joined in another order returns the same
\* set of vertices as the weld of the parts joined in the order of the links.
C21_JoinOrderIndependent ==
    pc = "Done" =>
        VertexSet(merge_by_dist(OtherJoinOrder(
            join_all(inputs, mainCurves, secCurves, terCurves, leaves).mesh)))
          = VertexSet(out.mesh)

----------------------------------------------------------------------------
\* C22: the end-to-end length of every main root is the growth scale times
\* its length at scale 1, in every growth direction.
C22_UniformGrowth ==
    pc = "MainRoots" /\ inputs.direction \in 0 .. 3 =>
        \A read \in ScaleReadsOf(inputs) :
            mainCurves = realize_instances(inputs, read) =>
                \A r \in 1 .. Len(mainCurves) :
                    Abs(mainCurves[r].len
                          - (scale_input(inputs, read)[3]
                               * Norm(switch_diagonal(inputs.direction,
                                                      inputs.rootLength)))
                                \div GrowthUnit) <= 2

----------------------------------------------------------------------------
\* the tilt of a spread angle given in tenths of a degree, as a multiple of
\* pi / 18000: three tenths of it, or all of it
TiltOf(spread, full) == IF full THEN 10 * spread ELSE 3 * spread

\* C23: the tilt in the rotation of every main root is 0.3 times the spread
\* angle in the directions Down and Up and the whole spread angle in the
\* directions Radial and Diagonal.
C23_SpreadTilt ==
    inputs.direction \in 0 .. 3 =>
        \A r \in 1 .. Len(mainCurves) :
            mainCurves[r].rotation[1]
                = TiltOf(inputs.spread, inputs.direction \in {2, 3})

\* roots grown downwards with the largest spread angle are tilted by 27
\* degrees
C23_Witness ==
    /\ pc = "MainRoots"
    /\ inputs.direction = 0
    /\ inputs.spread = 900
    /\ Len(mainCurves) = 2
    /\ mainCurves[2].rotation[1] = 2700

\* C24: the golden-angle term i * angle is part of the rotation of a main
\* root only in the directions Radial and Diagonal, where it turns the root
\* about the vertical axis; in the directions Down and Up the rotation is the
\* spread tilt alone.
C24_GoldenTermOnlyRadial ==
    inputs.direction \in 0 .. 3 =>
        \A r \in 1 .. Len(mainCurves) :
            mainCurves[r].rotation
                = IF inputs.direction \in {2, 3}
                  THEN <<TiltOf(inputs.spread, TRUE), 0,
                         mult_fib_rotation(r - 1, inputs.fibAngle)>>
                  ELSE <<TiltOf(inputs.spread, FALSE), 0, 0>>

----------------------------------------------------------------------------
\* the least curve parameter at which a point counts as a tip
TipParameter == 9500

\* C25: with leaves enabled, every leaf in the returned geometry is scaled
\* to the leaf size, so that leaves of two evaluations that differ in the
\* leaf size alone differ in that proportion.
C25_LeavesScaledToLeafSize ==
    pc = "Done" /\ inputs.enableLeaves =>
        \A q \in 1 .. Len(out.instances) :
            out.instances[q].scale
                = <<inputs.leafSize, inputs.leafSize, inputs.leafSize>>

\* C26: every leaf in the returned geometry sits at a point of a tertiary
\* curve whose curve parameter is above 0.95, and none at the start point.
C26_LeavesAtTips ==
    pc = "Done" =>
        \A q \in 1 .. Len(out.instances) : out.instances[q].t > TipParameter

----------------------------------------------------------------------------
\* C27: a point sampled on a secondary curve whose random draw is 0.4 or
\* more has no tertiary branch, as at the secondary level.
C27_TertiaryAcceptance ==
    \A p \in 1 .. Len(terPoints) :
        ~compare_random(seed, terPoints[p].id) =>
            \A q \in 1 .. Len(terCurves) : terCurves[q].id # terPoints[p].id

\* the curves of a branch level
BranchCurves(level) == IF level = "secondary" THEN secCurves ELSE terCurves

\* C28: a secondary or tertiary branch whose curve has length zero has no
\* vertices in the returned mesh.
C28_CollapsedBranchSkipped ==
    pc = "Done" =>
        \A m \in IslandsOf("secondary") \cup IslandsOf("tertiary") :
            Len(out.mesh[m].verts) > 0 =>
                BranchCurves(out.mesh[m].level)[out.mesh[m].curve].len > 0

----------------------------------------------------------------------------
\* a branch angle other than a
OtherAngle(a) == IF a = 900 THEN 0 ELSE 900

----------------------------------------------------------------------------
\* the values of the modifier before update_modifier_from_props is called in
\* a step: those of a new modifier in the add operator
BaseInputs == IF scene'.objects # scene.objects THEN SocketDefaults ELSE inputs

\* the number of a growth direction
DirectionNumber(d) ==
    CASE d = "DOWN" -> 0 [] d = "UP" -> 1 [] d = "RADIAL" -> 2
      [] d = "DIAGONAL" -> 3 [] d = "MIXED" -> 4 [] d = "SPIRAL" -> 5

\* the value update_modifier_from_props writes to socket k
Written(k) ==
    IF k = "direction" THEN DirectionNumber(props'.direction) ELSE props'[k]

\* C30: update_modifier_from_props changes nothing on a modifier without a
\* node group.  With a node group it writes the property value to every
\* socket of its mapping that the modifier has, the growth direction as its
\* number (an unknown direction as 0), and leaves every other value of the
\* modifier and the properties as they are.
C30_UpdateFrame ==
    [][/\ scene'.active # "set" => inputs' = inputs /\ out' = out /\ pc' = pc
       /\ \A k \in DOMAIN inputs :
             IF /\ pc \in {"Idle", "Done"}
                /\ result' # "CANCELLED"
                /\ scene'.active = "set"
                /\ k \in mapping \cap scene'.sockets
             THEN inputs'[k] = Written(k)
             ELSE inputs'[k] = BaseInputs[k]
       /\ props' = props \/ props' = FibonacciRootProperties(supplied')
       /\ result' = "FINISHED" => props' = props
       /\ inputs'.direction \in 0 .. 5
       /\ direction_map("SIDEWAYS") = 0]_vars

\* a modifier on a node group with three sockets: the root count was
\* written, the secondary density was not
C30_Witness ==
    /\ scene.active = "set"
    /\ scene.group = "partial"
    /\ scene.sockets = SocketsBuilt(3)
    /\ props.rootCount # SocketDefaults.rootCount
    /\ inputs.rootCount = props.rootCount
    /\ props.secDensity # SocketDefaults.secDensity
    /\ inputs.secDensity = SocketDefaults.secDensity

=============================================================================
